---- MODULE Spec2Model ----
(***************************************************************************)
(* A model of tools/mac/icons/compile_car.py (the asset-catalog            *)
(* compilation driver: main, _verify_actool_version, _process_path) and of *)
(* tools/jj/util.py (_log, the revision-log query helper).                 *)
(*                                                                         *)
(* A Python str is a sequence of one-character strings, so that split,     *)
(* rstrip, int(), str() and pathlib's suffix/stem are computed, not        *)
(* assumed.  A Python dict is a function whose DOMAIN is the set of keys   *)
(* present.  A Python tuple or list is a sequence.                         *)
(***************************************************************************)
EXTENDS Integers, Sequences, FiniteSets, TLC

\* ------------------------------------------------------------------ bounds
MaxPaths == 2          \* catalog paths on the command line
MaxStem == 3           \* characters in a catalog's base name
MaxDiag == 2           \* entries in the document-warnings collection
MaxVersionParts == 3   \* dotted components of the version actool reports
MaxRows == 2           \* revisions in a jj log reply
MaxFields == 2         \* fields requested from jj log
MaxValLen == 1         \* characters in one jj template value

\* ------------------------------------------------------- Python primitives
RECURSIVE IndexFrom(_, _, _)
\* The first position >= i of s that holds character c; 0 when there is none.
IndexFrom(s, c, i) ==
    IF i > Len(s) THEN 0
    ELSE IF s[i] = c THEN i
    ELSE IndexFrom(s, c, i + 1)

RECURSIVE split(_, _)
\* str.split(sep) for a one-character separator: ''.split(sep) is [''].
split(s, sep) ==
    LET i == IndexFrom(s, sep, 1)
    IN  IF i = 0 THEN << s >>
        ELSE << SubSeq(s, 1, i - 1) >> \o split(SubSeq(s, i + 1, Len(s)), sep)

RECURSIVE rstrip(_, _)
\* str.rstrip(c): every trailing occurrence of c is removed.
rstrip(s, c) ==
    IF Len(s) > 0 /\ s[Len(s)] = c THEN rstrip(SubSeq(s, 1, Len(s) - 1), c)
    ELSE s

RECURSIVE join(_, _)
\* sep.join(parts)
join(sep, parts) ==
    IF Len(parts) = 0 THEN << >>
    ELSE IF Len(parts) = 1 THEN parts[1]
    ELSE parts[1] \o sep \o join(sep, Tail(parts))

\* zip(a, b): stops at the shorter of the two.
zip(a, b) ==
    LET n == IF Len(a) < Len(b) THEN Len(a) ELSE Len(b)
    IN  [i \in 1..n |-> << a[i], b[i] >>]

\* {key: value for key, value in pairs}: a later pair overrides an earlier one.
dict(pairs) ==
    [key \in {pairs[i][1] : i \in 1..Len(pairs)} |->
        LET last == CHOOSE i \in 1..Len(pairs) :
                        /\ pairs[i][1] = key
                        /\ \A j \in (i + 1)..Len(pairs) : pairs[j][1] # key
        IN  pairs[last][2]]

Digits == << "0", "1", "2", "3", "4", "5", "6", "7", "8", "9" >>

DigitValue(c) == (CHOOSE d \in 1..10 : Digits[d] = c) - 1

RECURSIVE int(_)
\* int(s) for a non-empty string of decimal digits.
int(s) ==
    IF Len(s) = 1 THEN DigitValue(s[1])
    ELSE int(SubSeq(s, 1, Len(s) - 1)) * 10 + DigitValue(s[Len(s)])

RECURSIVE str(_)
\* str(n) for an integer n.
str(n) ==
    IF n < 0 THEN << "-" >> \o str(0 - n)
    ELSE IF n < 10 THEN << Digits[n + 1] >>
    ELSE str(n \div 10) \o << Digits[(n % 10) + 1] >>

\* a < b for two Python tuples of integers.
TupleLess(a, b) ==
    LET n == IF Len(a) < Len(b) THEN Len(a) ELSE Len(b)
        differ == {i \in 1..n : a[i] # b[i]}
    IN  IF differ = {} THEN Len(a) < Len(b)
        ELSE LET i == CHOOSE d \in differ : \A e \in differ : d <= e
             IN  a[i] < b[i]

\* The bounded strings over an alphabet.
RECURSIVE StringsOver(_, _)
StringsOver(alphabet, n) ==
    IF n = 0 THEN {<< >>}
    ELSE LET shorter == StringsOver(alphabet, n - 1)
         IN  shorter \cup {s \o << c >> : s \in {t \in shorter : Len(t) = n - 1},
                                           c \in alphabet}

\* ---------------------------------------------------------------- versions
_split_version(version) ==
    LET parts == split(version, ".")
    IN  [i \in 1..Len(parts) |-> int(parts[i])]

_unsplit_version(version) ==
    join(<< "." >>, [i \in 1..Len(version) |-> str(version[i])])

_REQUIRED_ACTOOL_VERSION == _split_version(<< "2", "6", ".", "0" >>)

\* The components a reported version is built from, and the reported versions.
VersionComponents ==
    { << "0" >>, << "3" >>, << "2", "5" >>, << "2", "6" >>, << "2", "7" >>,
      << "0", "2", "6" >> }

RECURSIVE DottedVersions(_)
DottedVersions(n) ==
    IF n = 1 THEN VersionComponents
    ELSE LET shorter == DottedVersions(n - 1)
         IN  shorter \cup {v \o << "." >> \o c : v \in shorter, c \in VersionComponents}

AllVersions == DottedVersions(MaxVersionParts)

\* The replies of the batch runs: scenario B ("25.3") and scenario A ("27.0").
BatchVersions == { << "2", "5", ".", "3" >>, << "2", "7", ".", "0" >> }

\* A faulty variant of the test: tuples of different arity never compare.
VersionTooOldSameArity(version) ==
    /\ Len(version) = Len(_REQUIRED_ACTOOL_VERSION)
    /\ TupleLess(version, _REQUIRED_ACTOOL_VERSION)

\* The test of line 63: version < _REQUIRED_ACTOOL_VERSION.
VersionTooOld(version) == TupleLess(version, _REQUIRED_ACTOOL_VERSION)

TooOldMessage(version) ==
    << "actool is too old; it is version ", _unsplit_version(version),
       " but at least version ", _unsplit_version(_REQUIRED_ACTOOL_VERSION),
       " is required" >>

\* ------------------------------------------------------------------- paths
\* A path is a sequence of components; a component is a string.
XCASSETS == << ".", "x", "c", "a", "s", "s", "e", "t", "s" >>

ParentDir == << "m", "a", "c" >>

PARDIR == << ".", "." >>     \* os.pardir

\* The index of the last '.' of a file name; 0 when it has none (str.rfind + 1).
LastDot(name) ==
    LET dots == {i \in 1..Len(name) : name[i] = "."}
    IN  IF dots = {} THEN 0 ELSE CHOOSE i \in dots : \A j \in dots : j <= i

\* pathlib.PurePath.name, .suffix and .stem.
PathName(path) == path[Len(path)]

PathSuffix(path) ==
    LET name == PathName(path)
        i == LastDot(name)
    IN  IF 1 < i /\ i < Len(name) THEN SubSeq(name, i, Len(name)) ELSE << >>

PathStem(path) ==
    LET name == PathName(path)
        i == LastDot(name)
    IN  IF 1 < i /\ i < Len(name) THEN SubSeq(name, 1, i - 1) ELSE name

RECURSIVE Resolve(_)
\* The file a path names: "x/.." steps back out of x.
Resolve(path) ==
    IF \E i \in 2..Len(path) : path[i] = PARDIR
    THEN LET i == CHOOSE j \in 2..Len(path) :
                      path[j] = PARDIR /\ \A h \in 2..(j - 1) : path[h] # PARDIR
         IN  Resolve(SubSeq(path, 1, i - 2) \o SubSeq(path, i + 1, Len(path)))
    ELSE path

\* A faulty variant of the checks: one '_' too many is let through.
PathFormatErrorOffByOne(path) ==
    IF PathSuffix(path) # XCASSETS
    THEN "Asset catalog filename must have .xcassets suffix"
    ELSE IF Len(split(PathStem(path), "_")) > 3
    THEN "Asset catalog filename must have at most one _"
    ELSE ""

\* Lines 114-119: the ValueError a path raises, "" when it raises none.
PathFormatError(path) ==
    IF ~(PathSuffix(path) = XCASSETS)
    THEN "Asset catalog filename must have .xcassets suffix"
    ELSE IF Len(split(PathStem(path), "_")) > 2
    THEN "Asset catalog filename must have at most one _"
    ELSE ""

\* Line 120: name_tag.
NameTag(path) ==
    LET name_parts == split(PathStem(path), "_")
    IN  IF Len(name_parts) = 2 THEN << "_" >> \o name_parts[2] ELSE << >>

\* Line 121: source_dir.
SourceDir(path) == path \o << PARDIR >>

\* Lines 127, 251 and 257: the file names derived from the name tag.
AppIconName(name_tag) ==
    << "A", "p", "p", "I", "c", "o", "n" >> \o name_tag \o << ".", "i", "c", "o", "n" >>

IcnsName(name_tag) == << "a", "p", "p" >> \o name_tag \o << ".", "i", "c", "n", "s" >>

CarName(name_tag) ==
    << "A", "s", "s", "e", "t", "s" >> \o name_tag \o << ".", "c", "a", "r" >>

\* The catalog names of the path checks: every base name over {a, _} with
\* each of these endings.
Endings ==
    { XCASSETS, << ".", "x", "c", "a", "s", "s", "e", "t" >>, << >>,
      XCASSETS \o << "." >>, XCASSETS \o << ".", "d" >> }

CatalogNames == {stem \o ending : stem \in StringsOver({"a", "_"}, MaxStem),
                                  ending \in Endings}

CatalogPaths == {<< ParentDir, name >> : name \in CatalogNames}

\* The catalogs of the batch runs: untagged, tagged, one with two '_' and one
\* with another suffix.
BatchPaths ==
    { << ParentDir, << "a" >> \o XCASSETS >>,
      << ParentDir, << "a", "_", "a" >> \o XCASSETS >>,
      << ParentDir, << "a", "_", "a", "_" >> \o XCASSETS >>,
      << ParentDir, << "a", ".", "i", "c", "o", "n" >> >> }

\* ---------------------------------------------------------- actool's reply
AmbiguousContent == "Ambiguous Content"

DiagTypes == {AmbiguousContent, "Missing Image"}

\* An optional value: << >> is Python's None, << v >> is v.
NoneValue == << >>

Some(v) == << v >>

IsNone(opt) == Len(opt) = 0

\* dict.get(key)
get(d, key) == IF key \in DOMAIN d THEN Some(d[key]) ELSE NoneValue

\* Python truth of an optional list: None and [] are false.
Truthy(opt) == ~IsNone(opt) /\ Len(opt[1]) > 0

K_Errors == "com.apple.actool.errors"
K_DocErrors == "com.apple.actool.document.errors"
K_Warnings == "com.apple.actool.warnings"
K_DocWarnings == "com.apple.actool.document.warnings"
K_Notices == "com.apple.actool.notices"
K_DocNotices == "com.apple.actool.document.notices"
K_Results == "com.apple.actool.compilation-results"
K_OutputFiles == "output-files"

\* A diagnostic collection of actool's reply: absent, empty, or one entry.
Collections ==
    {NoneValue, Some(<< >>)} \cup {Some(<< [type |-> t] >>) : t \in DiagTypes}

\* The document-warnings collections: absent, or up to MaxDiag entries.
RECURSIVE DiagLists(_)
DiagLists(n) ==
    IF n = 0 THEN {<< >>}
    ELSE LET shorter == DiagLists(n - 1)
         IN  shorter \cup {l \o << [type |-> t] >> :
                              l \in {m \in shorter : Len(m) = n - 1}, t \in DiagTypes}

DocWarningCollections == {NoneValue} \cup {Some(l) : l \in DiagLists(MaxDiag)}

\* The output file names actool may report, and the number it is expected to.
PartialPlist == << "p", "a", "r", "t", "i", "a", "l", ".", "p", "l", "i", "s", "t" >>
AppIconIcns == << "A", "p", "p", "I", "c", "o", "n", ".", "i", "c", "n", "s" >>
AssetsCar == << "A", "s", "s", "e", "t", "s", ".", "c", "a", "r" >>
OtherFile == << "A", "s", "s", "e", "t", "s", ".", "l", "o", "g" >>

OutputNames == {PartialPlist, AppIconIcns, AssetsCar, OtherFile}

ExpectedOutputFiles == 3

OutputLists == StringsOver(OutputNames, ExpectedOutputFiles + 1)

\* The compilation-results entry: absent, without output-files, or with them.
ResultEntries(lists) ==
    {NoneValue, Some(<< >>)} \cup {Some((K_OutputFiles :> l)) : l \in lists}

\* The dict of the keys that are present.
MakeDict(keys, values) ==
    [key \in {keys[i] : i \in {j \in 1..Len(keys) : ~IsNone(values[j])}} |->
        values[CHOOSE i \in 1..Len(keys) : keys[i] = key][1]]

DiagKeys == << K_Errors, K_DocErrors, K_Warnings, K_DocWarnings, K_Notices,
               K_DocNotices, K_Results >>

\* What one run of actool does: its return code, whether its standard output
\* is a plist, the plist's dict, its standard error, and the names of the files
\* it compiled into the directory given as --compile.
Reply(rc, dict_, err, files) ==
    [returncode |-> rc, is_plist |-> TRUE, output_dict |-> dict_, stderr |-> err,
     files |-> files]

Garbage ==
    [returncode |-> 1, is_plist |-> FALSE, output_dict |-> << >>, stderr |-> "spew",
     files |-> {}]

\* The files actool may have compiled when its compilation-results entry is cr:
\* the files it reports, or, for a list of the expected length, none of them.
CompiledFiles(cr) ==
    IF IsNone(cr) \/ K_OutputFiles \notin DOMAIN cr[1] THEN {{}}
    ELSE LET l == cr[1][K_OutputFiles]
             reported == {l[i] : i \in 1..Len(l)}
         IN  IF Len(l) = ExpectedOutputFiles THEN {reported, {}} ELSE {reported}

\* The replies of the batch runs: every output list, with clean diagnostics,
\* the allow-listed document warning, or one notice.
BatchReplies ==
    {Garbage} \cup
    UNION {
      {Reply(0, MakeDict(DiagKeys, << NoneValue, NoneValue, NoneValue, dw, n, NoneValue, cr >>),
             "spew", files) :
          dw \in {NoneValue, Some(<< [type |-> AmbiguousContent] >>)},
          n \in {NoneValue, Some(<< [type |-> "Missing Image"] >>)},
          files \in CompiledFiles(cr)} :
      cr \in ResultEntries(OutputLists)}

\* The replies of the classification runs: every combination of diagnostics,
\* with the expected output list.
ClassifyReplies ==
    {Reply(rc, MakeDict(DiagKeys, << e, de, w, dw, n, dn,
                                     Some((K_OutputFiles :> << PartialPlist, AppIconIcns, AssetsCar >>)) >>),
           err, {PartialPlist, AppIconIcns, AssetsCar}) :
        rc \in {0, 1}, err \in {"", "spew"},
        e \in Collections, de \in Collections, w \in Collections,
        dw \in DocWarningCollections, n \in Collections, dn \in Collections}

\* ---------------------------------------------------------- classification
\* The filter argument of collect_failures: None, or the lambda of lines 213-216.
NoFilter == "None"

NotAmbiguousContent == "lambda warnings"

\* filter(value), for the filter that is not None: the warnings that are not
\* of the expected type.
ApplyFilter(filter, value) ==
    SelectSeq(value, LAMBDA warning : warning.type # AmbiguousContent)

\* A faulty variant of collect_failures: only the first reason is kept.
collect_failures_first_only(output_dict, output_dict_key, failures, failures_key, filter) ==
    LET got == get(output_dict, output_dict_key)
        value == IF ~IsNone(got) /\ filter # NoFilter
                 THEN Some(ApplyFilter(filter, got[1])) ELSE got
    IN  IF ~Truthy(value) \/ DOMAIN failures # {} THEN failures
        ELSE (failures_key :> value[1]) @@ failures

\* Lines 190-200: failures, with failures[failures_key] set when the (filtered)
\* collection is neither absent nor empty.
collect_failures(output_dict, output_dict_key, failures, failures_key, filter) ==
    LET got == get(output_dict, output_dict_key)
        value == IF ~IsNone(got) /\ filter # NoFilter
                 THEN Some(ApplyFilter(filter, got[1])) ELSE got
    IN  IF ~Truthy(value) THEN failures
        ELSE (failures_key :> value[1]) @@ failures

\* A faulty variant of Failures: the document warnings are not filtered.
FailuresKeepAllWarnings(returncode, output_dict) ==
    LET f0 == IF returncode # 0 THEN ("return code" :> str(returncode)) ELSE << >>
        f1 == collect_failures(output_dict, K_Errors, f0, "errors", NoFilter)
        f2 == collect_failures(output_dict, K_DocErrors, f1, "document errors", NoFilter)
        f3 == collect_failures(output_dict, K_Warnings, f2, "warnings", NoFilter)
        f4 == collect_failures(output_dict, K_DocWarnings, f3, "document warnings", NoFilter)
        f5 == collect_failures(output_dict, K_Notices, f4, "notices", NoFilter)
    IN  collect_failures(output_dict, K_DocNotices, f5, "document notices", NoFilter)

\* A faulty variant of Failures: the top-level warnings are filtered too.
FailuresFilterEveryWarning(returncode, output_dict) ==
    LET f0 == IF returncode # 0 THEN ("return code" :> str(returncode)) ELSE << >>
        f1 == collect_failures(output_dict, K_Errors, f0, "errors", NoFilter)
        f2 == collect_failures(output_dict, K_DocErrors, f1, "document errors", NoFilter)
        f3 == collect_failures(output_dict, K_Warnings, f2, "warnings", NotAmbiguousContent)
        f4 == collect_failures(output_dict, K_DocWarnings, f3, "document warnings",
                               NotAmbiguousContent)
        f5 == collect_failures(output_dict, K_Notices, f4, "notices", NoFilter)
    IN  collect_failures(output_dict, K_DocNotices, f5, "document notices", NoFilter)

\* Lines 186-222: the failures dict of one reply.
Failures(returncode, output_dict) ==
    LET f0 == IF returncode # 0 THEN ("return code" :> str(returncode)) ELSE << >>
        f1 == collect_failures(output_dict, K_Errors, f0, "errors", NoFilter)
        f2 == collect_failures(output_dict, K_DocErrors, f1, "document errors", NoFilter)
        f3 == collect_failures(output_dict, K_Warnings, f2, "warnings", NoFilter)
        f4 == collect_failures(output_dict, K_DocWarnings, f3, "document warnings",
                               NotAmbiguousContent)
        f5 == collect_failures(output_dict, K_Notices, f4, "notices", NoFilter)
    IN  collect_failures(output_dict, K_DocNotices, f5, "document notices", NoFilter)

Exception(kind, stage, detail) == [kind |-> kind, stage |-> stage, detail |-> detail]

NoException == Exception("", "", << >>)

\* Lines 184-240: the exception a reply raises before any output is relocated,
\* None when it raises none.
ReplyError(r) ==
    IF ~r.is_plist
    THEN Some(Exception("InvalidFileException", "parse", << >>))
    ELSE LET failures == Failures(r.returncode, r.output_dict)
             compilation_results == get(r.output_dict, K_Results)
             output_files == IF IsNone(compilation_results) THEN NoneValue
                             ELSE get(compilation_results[1], K_OutputFiles)
         IN  IF DOMAIN failures # {}
             THEN Some(Exception("AssetCatalogException", "classify",
                                 ("stderr" :> r.stderr) @@ failures))
             ELSE IF IsNone(compilation_results)
             THEN Some(Exception("AssetCatalogException", "results",
                                 "actool had no compilation results"))
             ELSE IF IsNone(output_files)
             THEN Some(Exception("AssetCatalogException", "results",
                                 "actool had no output files"))
             ELSE IF Len(output_files[1]) # ExpectedOutputFiles
             THEN Some(Exception("AssetCatalogException", "count",
                                 Len(output_files[1])))
             ELSE NoneValue

\* ------------------------------------------------------------- file systems
TmpNames == { << "t", "1" >>, << "t", "2" >> }

StagedIcon == << "A", "p", "p", "I", "c", "o", "n", ".", "i", "c", "o", "n" >>

\* tempfile.TemporaryDirectory().__enter__: a new, empty directory.
Acquire(fs, t) == (t :> {}) @@ fs

\* A faulty variant of the exit: the directory is left behind.
ExitScopeKeeps(fs, t) == fs

\* tempfile.TemporaryDirectory().__exit__: the directory and all it holds go.
ExitScope(fs, t) == [d \in (DOMAIN fs) \ {t} |-> fs[d]]

\* shutil.copytree into a temporary directory.
copytree(fs, t, entry) == [fs EXCEPT ![t] = @ \cup {entry}]

\* A file actool compiled into a temporary directory: its name, and the run
\* (the catalog's position) that made it.
ActoolName == << "a", "c", "t", "o", "o", "l" >>

CompiledFile(name, run) == [name |-> name, source |-> << ActoolName, str(run) >>]

\* actool's effect on the directory given as --compile.
Compile(fs, t, names, run) ==
    [fs EXCEPT ![t] = @ \cup {CompiledFile(name, run) : name \in names}]

\* Whether a file of a temporary directory exists, and the file.
Exists(fs, file) == \E entry \in fs[file[1]] : entry.name = file[2]

ReadFile(fs, file) == CHOOSE entry \in fs[file[1]] : entry.name = file[2]

\* shutil.copyfile: the destination holds the bytes of the source.
copyfile(files, source, destination) == (destination :> source) @@ files

\* -------------------------------------------------------------------- state
VARIABLES
    pc,                     \* where main is: gate, args, loop, invoke, check, relocate, done, failed
    paths,                  \* parsed.paths
    idx,                    \* the position in paths of the catalog of the for loop
    detected,               \* the short-bundle-version actool reported
    min_deployment_target,  \* what _min_deployment_target returned
    tmpfs,                  \* the temporary directories that exist, with what each holds
    tmp_dir,                \* _process_path's tmp_dir
    name_tag,               \* _process_path's name_tag
    process,                \* actool's reply to the running _process_path, if any
    output_files,           \* _process_path's output_files
    k,                      \* the position in output_files of the for loop
    dest,                   \* the files written beside the catalogs, with their content
    failure,                \* the exception that ended main
    gate_runs,              \* how many times actool was asked for its version
    staged,                 \* the catalogs whose icon was copied
    compiled,               \* the catalogs actool was run on
    wrote,                  \* the destination files each catalog wrote
    templates,              \* _log's templates
    table,                  \* what jj holds for the revisions: one row of values each
    stdout,                 \* jj's standard output
    log_result,             \* what _log returned
    log_pc                  \* where the caller of _log is: call, returned

locals == << tmp_dir, name_tag, process, output_files, k >>

effects == << staged, compiled, wrote, dest, tmpfs >>

mainvars == << pc, paths, idx, detected, min_deployment_target, locals, effects,
               failure, gate_runs >>

jjvars == << templates, table, stdout, log_result, log_pc >>

vars == << mainvars, jjvars >>

\* ---------------------------------------------------------------------- jj
_NEWLINE == "\\x1e"

_COMMA == "\\x1f"

\* The field names a caller may ask for, in sorted order.
FieldOrder == << "change_id", "description", "parents" >>

FieldTemplates ==
    [change_id |-> "change_id", description |-> "description",
     parents |-> "parents.map(|c| c.change_id())"]

\* The first element of zip(*sorted(templates.items())): the sorted field names.
SortedFields(t) == SelectSeq(FieldOrder, LAMBDA f : f \in DOMAIN t)

RECURSIVE Concat(_)
Concat(seqs) == IF Len(seqs) = 0 THEN << >> ELSE seqs[1] \o Concat(Tail(seqs))

\* What jj prints under the template of lines 45-46: per revision, the values
\* joined by _COMMA, then _NEWLINE.
JJOutput(rows) ==
    Concat([i \in 1..Len(rows) |-> join(<< _COMMA >>, rows[i]) \o << _NEWLINE >>])

\* Lines 57-60: the parse of jj's standard output.
ParseLog(fields, out) ==
    LET changes == split(rstrip(out, _NEWLINE), _NEWLINE)
    IN  [i \in 1..Len(changes) |-> dict(zip(fields, split(changes[i], _COMMA)))]

Values == StringsOver({"a"}, MaxValLen)

TemplateSets ==
    {[f \in fs |-> FieldTemplates[f]] :
        fs \in {s \in SUBSET {FieldOrder[i] : i \in 1..Len(FieldOrder)} :
                    Cardinality(s) >= 1 /\ Cardinality(s) <= MaxFields}}

Tables(n) == StringsOver([1..n -> Values], MaxRows)

IdleJJ ==
    /\ templates = [change_id |-> "change_id"]
    /\ table = << >>
    /\ stdout = << >>
    /\ log_result = << >>
    /\ log_pc = "idle"

InitJJ ==
    /\ templates \in TemplateSets
    /\ table \in Tables(Cardinality(DOMAIN templates))
    /\ stdout = << >>
    /\ log_result = << >>
    /\ log_pc = "call"

\* Lines 26-60: _log, with jj's reply for the revisions asked for.
_log ==
    /\ log_pc = "call"
    /\ LET fields == SortedFields(templates)
           out == JJOutput(table)
       IN  /\ stdout' = out
           /\ log_result' = ParseLog(fields, out)
    /\ log_pc' = "returned"
    /\ UNCHANGED << templates, table, mainvars >>

\* -------------------------------------------------------------------- main
InitMain(pathlists) ==
    /\ pc = "gate"
    /\ paths \in pathlists
    /\ idx = 1
    /\ detected = << >>
    /\ min_deployment_target = ""
    /\ tmpfs = << >>
    /\ tmp_dir = << >>
    /\ name_tag = << >>
    /\ process = NoneValue
    /\ output_files = << >>
    /\ k = 0
    /\ dest = << >>
    /\ failure = NoException
    /\ gate_runs = 0
    /\ staged = {}
    /\ compiled = {}
    /\ wrote = {}

\* raise: the exception ends main, and the with block of line 109, when it is
\* open, removes its directory on the way out (fs is what is left).
Raise(exception, fs) ==
    /\ pc' = "failed"
    /\ failure' = exception
    /\ tmpfs' = fs

\* Lines 50-68 (called at line 267): _verify_actool_version.
_verify_actool_version(replies) ==
    /\ pc = "gate"
    /\ \E reply \in replies :
        LET version == _split_version(reply)
        IN  /\ detected' = reply
            /\ gate_runs' = gate_runs + 1
            /\ IF VersionTooOld(version)
               THEN Raise(Exception("AssetCatalogException", "gate", TooOldMessage(version)),
                          tmpfs)
               ELSE pc' = "args" /\ UNCHANGED << failure, tmpfs >>
    /\ UNCHANGED << paths, idx, min_deployment_target, locals, staged, compiled, wrote,
                    dest, jjvars >>

\* Lines 71-86: the single match of the mac_deployment_target pattern;
\* anything but one match fails to unpack.
_min_deployment_target(matches) ==
    IF matches = 1 THEN Some("11.0") ELSE NoneValue

\* Lines 269-286: the arguments are parsed (nargs='+' wants a path) and the
\* deployment target is read.
ParseArgsAndTarget ==
    /\ pc = "args"
    /\ IF Len(paths) = 0
       THEN Raise(Exception("SystemExit", "args", 2), tmpfs)
            /\ UNCHANGED min_deployment_target
       ELSE \E matches \in 0..2 :
              LET target == _min_deployment_target(matches)
              IN  IF IsNone(target)
                  THEN Raise(Exception("ValueError", "config", matches), tmpfs)
                       /\ UNCHANGED min_deployment_target
                  ELSE /\ min_deployment_target' = target[1]
                       /\ pc' = "loop"
                       /\ UNCHANGED << failure, tmpfs >>
    /\ UNCHANGED << paths, idx, detected, locals, staged, compiled, wrote, dest,
                    gate_runs, jjvars >>

\* Lines 109-129: _process_path is entered for paths[idx]: the temporary
\* directory is made, the path is checked and the icon is copied into it.
StagePath ==
    /\ pc = "loop"
    /\ idx <= Len(paths)
    /\ \E t \in TmpNames \ DOMAIN tmpfs, icon_present \in BOOLEAN :
        LET path == paths[idx]
            fs == Acquire(tmpfs, t)
            error == PathFormatError(path)
        IN  /\ tmp_dir' = t
            /\ IF error # ""
               THEN /\ Raise(Exception("ValueError", "format", error), ExitScope(fs, t))
                    /\ UNCHANGED << name_tag, staged >>
               ELSE /\ name_tag' = NameTag(path)
                    /\ IF ~icon_present
                       THEN /\ Raise(Exception("FileNotFoundError", "icon",
                                               AppIconName(NameTag(path))),
                                     ExitScope(fs, t))
                            /\ UNCHANGED staged
                       ELSE /\ tmpfs' = copytree(fs, t,
                                       [name |-> StagedIcon,
                                        source |-> Resolve(SourceDir(path) \o
                                                      << AppIconName(NameTag(path)) >>)])
                            /\ staged' = staged \cup {idx}
                            /\ pc' = "invoke"
                            /\ UNCHANGED failure
    /\ UNCHANGED << paths, idx, detected, min_deployment_target, process, output_files,
                    k, compiled, wrote, dest, gate_runs, jjvars >>

\* Lines 131-183: actool is run on the catalog and the staged icon, and is
\* waited for: it compiles its files into tmp_dir and hands back its reply.
InvokeActool(replies) ==
    /\ pc = "invoke"
    /\ \E r \in replies :
        /\ process' = Some(r)
        /\ tmpfs' = Compile(tmpfs, tmp_dir, r.files, idx)
    /\ compiled' = compiled \cup {idx}
    /\ pc' = "check"
    /\ UNCHANGED << paths, idx, detected, min_deployment_target, tmp_dir, name_tag,
                    output_files, k, failure, staged, wrote, dest, gate_runs, jjvars >>

\* Lines 184-240: the reply is parsed, classified and checked for the expected
\* output files.
CheckReply ==
    /\ pc = "check"
    /\ LET r == process[1]
           error == ReplyError(r)
       IN  IF ~IsNone(error)
           THEN /\ Raise(error[1], ExitScope(tmpfs, tmp_dir))
                /\ UNCHANGED << output_files, k >>
           ELSE /\ output_files' =
                      LET names == r.output_dict[K_Results][K_OutputFiles]
                      IN  [i \in 1..Len(names) |-> << tmp_dir, names[i] >>]
                /\ k' = 1
                /\ pc' = "relocate"
                /\ UNCHANGED << failure, tmpfs >>
    /\ UNCHANGED << paths, idx, detected, min_deployment_target, tmp_dir, name_tag,
                    process, staged, compiled, wrote, dest, gate_runs, jjvars >>

\* Lines 251 and 257: where an output file goes; None for partial.plist.
DestinationName(output_name, tag) ==
    IF output_name = AppIconIcns THEN Some(IcnsName(tag))
    ELSE IF output_name = AssetsCar THEN Some(CarName(tag))
    ELSE NoneValue

\* Lines 246-263: the output file names that do not raise.
Recognized(output_name) == output_name \in {PartialPlist, AppIconIcns, AssetsCar}

\* Lines 244-263: one turn of the loop over output_files.
RelocateOutput ==
    /\ pc = "relocate"
    /\ k <= Len(output_files)
    /\ LET output_file == output_files[k]
           target == DestinationName(PathName(output_file), name_tag)
       IN  IF ~Recognized(PathName(output_file))
           THEN /\ Raise(Exception("AssetCatalogException", "name", output_file),
                         ExitScope(tmpfs, tmp_dir))
                /\ UNCHANGED << k, dest, wrote >>
           ELSE IF ~IsNone(target) /\ ~Exists(tmpfs, output_file)
           THEN /\ Raise(Exception("FileNotFoundError", "copy", output_file),
                         ExitScope(tmpfs, tmp_dir))
                /\ UNCHANGED << k, dest, wrote >>
           ELSE /\ k' = k + 1
                /\ UNCHANGED << pc, failure, tmpfs >>
                /\ IF IsNone(target)
                   THEN UNCHANGED << dest, wrote >>
                   ELSE LET destination_path ==
                                Resolve(SourceDir(paths[idx]) \o << target[1] >>)
                        IN  /\ dest' = copyfile(dest, ReadFile(tmpfs, output_file),
                                                destination_path)
                            /\ wrote' = wrote \cup
                                   {[catalog |-> idx, path |-> destination_path]}
    /\ UNCHANGED << paths, idx, detected, min_deployment_target, tmp_dir, name_tag,
                    process, output_files, staged, compiled, gate_runs, jjvars >>

\* The loop of line 244 is over: the with block of line 109 is left and
\* _process_path returns to the loop of line 288.
ReturnFromProcessPath ==
    /\ pc = "relocate"
    /\ k > Len(output_files)
    /\ tmpfs' = ExitScope(tmpfs, tmp_dir)
    /\ idx' = idx + 1
    /\ pc' = "loop"
    /\ tmp_dir' = << >>
    /\ name_tag' = << >>
    /\ process' = NoneValue
    /\ output_files' = << >>
    /\ k' = 0
    /\ UNCHANGED << paths, detected, min_deployment_target, dest, failure, staged,
                    compiled, wrote, gate_runs, jjvars >>

\* Line 288 finds no further path: main returns.
MainReturn ==
    /\ pc = "loop"
    /\ idx > Len(paths)
    /\ pc' = "done"
    /\ UNCHANGED << paths, idx, detected, min_deployment_target, locals, effects,
                    failure, gate_runs, jjvars >>

\* ----------------------------------------------------------- specifications
\* A batch run of main over up to MaxPaths catalogs.
Init == InitMain(StringsOver(BatchPaths, MaxPaths)) /\ IdleJJ

Next ==
    \/ _verify_actool_version(BatchVersions)
    \/ ParseArgsAndTarget
    \/ StagePath
    \/ InvokeActool(BatchReplies)
    \/ CheckReply
    \/ RelocateOutput
    \/ ReturnFromProcessPath
    \/ MainReturn

Spec == Init /\ [][Next]_vars

\* The capability gate over every reported version.
InitGate == InitMain({<< p >> : p \in BatchPaths}) /\ IdleJJ

NextGate == _verify_actool_version(AllVersions)

SpecGate == InitGate /\ [][NextGate]_vars

\* One catalog of every name.
InitPath == InitMain({<< p >> : p \in CatalogPaths}) /\ IdleJJ

SpecPath == InitPath /\ [][Next]_vars

\* One catalog, over every combination of diagnostics.
InitClassify == InitMain({<< << ParentDir, << "a" >> \o XCASSETS >> >>}) /\ IdleJJ

NextClassify ==
    \/ _verify_actool_version(BatchVersions)
    \/ ParseArgsAndTarget
    \/ StagePath
    \/ InvokeActool(ClassifyReplies)
    \/ CheckReply
    \/ RelocateOutput
    \/ ReturnFromProcessPath
    \/ MainReturn

SpecClassify == InitClassify /\ [][NextClassify]_vars

\* One call of _log.
InitLog == InitMain({<< >>}) /\ InitJJ

SpecLog == InitLog /\ [][_log]_vars

\* ------------------------------------------------------------------ claims
\* What the claims speak of, stated without the operators of the model.

\* The catalog _process_path is working on, or failed on.
InProcessPath == pc \in {"invoke", "check", "relocate"}

FailedInProcessPath ==
    pc = "failed" /\ failure.stage \in {"format", "icon", "parse", "classify",
                                         "results", "count", "name", "copy"}

\* The destination files catalog i wrote.
WrittenBy(i) == {w.path : w \in {x \in wrote : x.catalog = i}}

\* The two destination files of a catalog whose name tag is tag.
DestinationsOf(tag) ==
    { << ParentDir, << "a", "p", "p" >> \o tag \o << ".", "i", "c", "n", "s" >> >>,
      << ParentDir, << "A", "s", "s", "e", "t", "s" >> \o tag \o << ".", "c", "a", "r" >> >> }

\* C1: a catalog whose processing fails, for whatever reason, has neither of
\* its destination files created or overwritten: they are written only on
\* full success.
C1_NoWriteOnFailure ==
    FailedInProcessPath => WrittenBy(idx) = {}

\* A collection of a reply that is absent or empty.
AbsentOrEmpty(output_dict, key) ==
    key \notin DOMAIN output_dict \/ Len(output_dict[key]) = 0

\* The document warnings of a reply that are not of the allow-listed type.
OtherDocWarnings(output_dict) ==
    IF K_DocWarnings \in DOMAIN output_dict
    THEN SelectSeq(output_dict[K_DocWarnings], LAMBDA w : w.type # "Ambiguous Content")
    ELSE << >>

CleanReply(r) ==
    /\ r.returncode = 0
    /\ \A key \in {K_Errors, K_DocErrors, K_Warnings, K_Notices, K_DocNotices} :
          AbsentOrEmpty(r.output_dict, key)
    /\ OtherDocWarnings(r.output_dict) = << >>

\* The reply was parsed and classified.
Classified == ~IsNone(process) /\ process[1].is_plist /\ pc # "check"

ClassificationFailed == pc = "failed" /\ failure.stage = "classify"

ClassificationPassed ==
    \/ pc = "relocate"
    \/ pc = "failed" /\ failure.stage \in {"results", "count", "name", "copy"}

\* C2: classification passes, and relocation proceeds, if and only if the
\* return code is 0, the errors, document-errors, warnings, notices and
\* document-notices collections are each absent or empty, and the
\* document-warnings collection without its 'Ambiguous Content' entries is
\* absent or empty; in every other case the catalog fails.
C2_ClassificationPassesIffClean ==
    Classified =>
        /\ ClassificationPassed <=> CleanReply(process[1])
        /\ ClassificationFailed <=> ~CleanReply(process[1])
        /\ (CleanReply(process[1]) /\ failure = NoException) => pc = "relocate"

C2_Witness ==
    /\ pc = "relocate"
    /\ K_DocWarnings \in DOMAIN process[1].output_dict
    /\ Len(process[1].output_dict[K_DocWarnings]) = 2
    /\ K_Errors \in DOMAIN process[1].output_dict

\* C3: whenever _process_path completes successfully, the reported output
\* files were exactly partial.plist, AppIcon.icns and Assets.car, each one
\* present in the list and AppIcon.icns and Assets.car compiled by this run,
\* and exactly two files were persisted, app<NameTag>.icns and
\* Assets<NameTag>.car.
C3_SuccessMeansThreeArtifacts ==
    (pc = "relocate" /\ k > Len(output_files)) =>
        /\ Len(output_files) = 3
        /\ \A name \in {PartialPlist, AppIconIcns, AssetsCar} :
              \E i \in 1..Len(output_files) : output_files[i][2] = name
        /\ \A name \in {AppIconIcns, AssetsCar} :
              \E entry \in tmpfs[tmp_dir] : entry.name = name /\ entry.source[2] = str(idx)
        /\ WrittenBy(idx) = DestinationsOf(name_tag)
        /\ Cardinality(WrittenBy(idx)) = 2

\* The reply's only diagnostics are document warnings.
OnlyDocWarnings(r) ==
    /\ r.returncode = 0
    /\ \A key \in {K_Errors, K_DocErrors, K_Warnings, K_Notices, K_DocNotices} :
          AbsentOrEmpty(r.output_dict, key)

\* C4: 'Ambiguous Content' document warnings are the only warnings that never
\* fail a catalog: a reply with return code 0 whose only diagnostics are such
\* document warnings passes; a reply with a single document warning of another
\* type fails; a reply with a non-empty top-level warnings collection fails
\* whatever the warnings' type, 'Ambiguous Content' included.
C4_OnlyAmbiguousContentTolerated ==
    Classified =>
        LET r == process[1]
            od == r.output_dict
        IN  /\ ( /\ OnlyDocWarnings(r)
                 /\ K_DocWarnings \in DOMAIN od
                 /\ \A i \in 1..Len(od[K_DocWarnings]) :
                       od[K_DocWarnings][i].type = "Ambiguous Content" )
                  => ClassificationPassed
            /\ ( /\ K_DocWarnings \in DOMAIN od
                 /\ Len(od[K_DocWarnings]) = 1
                 /\ od[K_DocWarnings][1].type # "Ambiguous Content" )
                  => ClassificationFailed
            /\ ( /\ K_Warnings \in DOMAIN od
                 /\ Len(od[K_Warnings]) > 0 )
                  => ClassificationFailed

C4_Witness ==
    /\ ClassificationFailed
    /\ OnlyDocWarnings([process[1] EXCEPT
                           !.output_dict = [key \in (DOMAIN @) \ {K_Warnings} |-> @[key]]])
    /\ OtherDocWarnings(process[1].output_dict) = << >>
    /\ K_Warnings \in DOMAIN process[1].output_dict
    /\ process[1].output_dict[K_Warnings] = << [type |-> "Ambiguous Content"] >>

\* The six collections of a reply, with the name each has in the report.
Categories ==
    { [name |-> "errors", key |-> K_Errors],
      [name |-> "document errors", key |-> K_DocErrors],
      [name |-> "warnings", key |-> K_Warnings],
      [name |-> "document warnings", key |-> K_DocWarnings],
      [name |-> "notices", key |-> K_Notices],
      [name |-> "document notices", key |-> K_DocNotices] }

\* What a category contributes: its collection, filtered for document warnings.
Contribution(output_dict, key) ==
    IF key \notin DOMAIN output_dict THEN << >>
    ELSE IF key = K_DocWarnings THEN OtherDocWarnings(output_dict)
    ELSE output_dict[key]

\* C5: the failure report of a failed classification names every contributing
\* reason: each of the seven categories has an entry if and only if it
\* contributed (a non-zero return code, or a collection that is non-empty after
\* filtering), the entry is the collection verbatim (filtered for document
\* warnings), and the captured standard error is attached exactly when at
\* least one reason was collected.
C5_ReportNamesEveryReason ==
    /\ ClassificationFailed =>
        LET r == process[1]
            report == failure.detail
        IN  /\ DOMAIN report \subseteq
                   {"return code", "stderr"} \cup {c.name : c \in Categories}
            /\ ("return code" \in DOMAIN report) <=> (r.returncode # 0)
            /\ ("return code" \in DOMAIN report) =>
                   int(report["return code"]) = r.returncode
            /\ \A c \in Categories :
                   /\ (c.name \in DOMAIN report) <=>
                          (Contribution(r.output_dict, c.key) # << >>)
                   /\ (c.name \in DOMAIN report) =>
                          report[c.name] = Contribution(r.output_dict, c.key)
            /\ "stderr" \in DOMAIN report
            /\ report["stderr"] = r.stderr
            /\ (DOMAIN report) \ {"stderr"} # {}
    /\ (Classified /\ ~ClassificationFailed) =>
        /\ process[1].returncode = 0
        /\ \A c \in Categories : Contribution(process[1].output_dict, c.key) = << >>
        /\ failure.stage # "classify"

C5_Witness ==
    /\ ClassificationFailed
    /\ {"return code", "errors", "document warnings", "notices", "stderr"}
           \subseteq DOMAIN failure.detail
    /\ Len(process[1].output_dict[K_DocWarnings]) = 2
    /\ Len(failure.detail["document warnings"]) = 1
    /\ failure.detail["stderr"] = "spew"

\* The catalogs that had a destination file written.
Writers == {w.catalog : w \in wrote}

IsPrefix(S) == \E n \in 0..Len(paths) : S = 1..n

\* The part of C6 that is about the order of the steps: the gate runs once and
\* before any catalog is staged, compiled or written, the catalogs are taken
\* in the order given, and nothing runs after the first failure.
C6_FailFastOrder ==
    /\ gate_runs <= 1
    /\ (staged \cup compiled \cup Writers # {} \/ DOMAIN tmpfs # {} \/ pc \notin {"gate", "failed"})
           => (gate_runs = 1 /\ ~(pc = "failed" /\ failure.stage = "gate"))
    /\ IsPrefix(staged) /\ IsPrefix(compiled)
    /\ compiled \subseteq staged /\ Writers \subseteq compiled
    /\ (staged \cup compiled \cup Writers) \subseteq 1..idx
    /\ \A i \in staged : \A j \in 1..(i - 1) : WrittenBy(j) \subseteq DestinationsOf(NameTag(paths[j]))
    /\ (pc = "failed") => ~ENABLED Next

\* C6: a run of main is fail-fast: the gate runs once and before any catalog
\* is staged, compiled or written, the catalogs are processed one at a time in
\* the order given, nothing is staged, compiled or written after the first
\* failure, and so the catalogs with outputs written form a prefix of the list.
C6_FailFastPrefix ==
    /\ C6_FailFastOrder
    /\ IsPrefix(Writers)

\* The file name ends in '.xcassets', and that ending is its suffix.
HasXcassetsSuffix(name) ==
    /\ Len(name) > 9
    /\ SubSeq(name, Len(name) - 8, Len(name)) =
           << ".", "x", "c", "a", "s", "s", "e", "t", "s" >>

Underscores(stem) == {i \in 1..Len(stem) : stem[i] = "_"}

\* The name tag of a base name with at most one '_'.
TagOf(stem) ==
    IF Underscores(stem) = {} THEN << >>
    ELSE LET u == CHOOSE i \in Underscores(stem) : TRUE
         IN  << "_" >> \o SubSeq(stem, u + 1, Len(stem))

\* StagePath has acted on paths[idx].
PathChecked == InProcessPath \/ FailedInProcessPath

\* C7: a path whose final suffix is not '.xcassets' is rejected; otherwise a
\* base name with no '_'-delimited suffix has the name tag '', one with exactly
\* one has '_<suffix>', and one with two or more is rejected; a rejected path
\* causes no compiler invocation and no destination write.
C7_PathValidation ==
    PathChecked =>
        LET name == paths[idx][2]
            stem == SubSeq(name, 1, Len(name) - 9)
            rejected == pc = "failed" /\ failure.kind = "ValueError"
                                      /\ failure.stage = "format"
        IN  /\ rejected <=> (~HasXcassetsSuffix(name) \/ Cardinality(Underscores(stem)) >= 2)
            /\ rejected => /\ idx \notin staged
                           /\ idx \notin compiled
                           /\ IsNone(process)
                           /\ WrittenBy(idx) = {}
                           /\ DOMAIN dest = {}
            /\ ~rejected => name_tag = TagOf(stem)

C7_Witness ==
    /\ pc = "invoke"
    /\ paths[idx][2] = << "a", "_", "a", ".", "x", "c", "a", "s", "s", "e", "t", "s" >>
    /\ name_tag = << "_", "a" >>

\* a < b in the numeric, left-to-right order of tuples in which a missing
\* position is smaller than any number.
Older(a, b) ==
    \E i \in 1..Len(b) :
        /\ \A j \in 1..(i - 1) : j <= Len(a) /\ a[j] = b[j]
        /\ (i > Len(a) \/ a[i] < b[i])

\* C8: _verify_actool_version fails exactly when the detected version tuple is
\* less than (26, 0) in that order (so (26,) fails and '27.0' passes), and the
\* message of the failure (as for '25.3') carries the detected and the
\* required version.
C8_GateFailsIffOlder ==
    (gate_runs = 1) =>
        LET version == _split_version(detected)
            failed == pc = "failed" /\ failure.stage = "gate"
        IN  /\ failed <=> Older(version, << 26, 0 >>)
            /\ ~failed => pc = "args"
            /\ failed =>
                   /\ failure.kind = "AssetCatalogException"
                   /\ _split_version(failure.detail[2]) = version
                   /\ failure.detail[4] = << "2", "6", ".", "0" >>
            /\ (detected = << "2", "7", ".", "0" >>) => ~failed
            /\ (detected = << "2", "5", ".", "3" >>) =>
                   (failed /\ failure.detail[2] = << "2", "5", ".", "3" >>)

C8_Witness ==
    /\ pc = "failed"
    /\ failure.stage = "gate"
    /\ detected = << "2", "6" >>
    /\ failure.detail[2] = << "2", "6" >>

\* The icon staged for the catalog _process_path is working on.
IconStagedFor(path) ==
    [name |-> << "A", "p", "p", "I", "c", "o", "n", ".", "i", "c", "o", "n" >>,
     source |-> << ParentDir, << "A", "p", "p", "I", "c", "o", "n" >>
                      \o TagOf(SubSeq(path[2], 1, Len(path[2]) - 9))
                      \o << ".", "i", "c", "o", "n" >> >>]

\* C9: the temporary directory of _process_path is removed on every way out:
\* once _process_path has returned or raised, the directory, the staged
\* AppIcon.icon and whatever actool compiled into it no longer exist; and it is
\* never shared between the iterations of two catalogs: while one runs, the
\* only temporary directory is its own, it holds the icon staged for this
\* catalog, before actool runs nothing else, and afterwards besides the icon
\* only files that this catalog's run of actool compiled.
C9_TemporaryDirectoryScoped ==
    /\ (pc \in {"gate", "args", "loop", "done", "failed"}) => DOMAIN tmpfs = {}
    /\ InProcessPath =>
          /\ DOMAIN tmpfs = {tmp_dir}
          /\ IconStagedFor(paths[idx]) \in tmpfs[tmp_dir]
          /\ (pc = "invoke") => tmpfs[tmp_dir] = {IconStagedFor(paths[idx])}
          /\ \A entry \in tmpfs[tmp_dir] \ {IconStagedFor(paths[idx])} :
                 /\ entry.source = << << "a", "c", "t", "o", "o", "l" >>, str(idx) >>
                 /\ entry.name \in process[1].files

C9_Witness ==
    /\ pc = "failed"
    /\ failure.stage = "name"
    /\ idx = 2
    /\ staged = {1, 2}
    /\ compiled = {1, 2}
    /\ process[1].files # {}
    /\ tmp_dir \in TmpNames

\* The position of a field among the sorted field names asked for.
Rank(f) == Cardinality({i \in 1..Len(FieldOrder) :
                            /\ FieldOrder[i] \in DOMAIN templates
                            /\ \E j \in 1..Len(FieldOrder) : j >= i /\ FieldOrder[j] = f})

\* C10: for a jj output of N >= 0 rows, _log returns exactly N mappings, the
\* i-th binding every requested field to the i-th row's value for it (also
\* when N = 0 and when the values of the last rows are empty).
C10_OneRecordPerRow ==
    (log_pc = "returned") =>
        /\ Len(log_result) = Len(table)
        /\ \A i \in 1..Len(table) :
              log_result[i] = [f \in DOMAIN templates |-> table[i][Rank(f)]]

====
